---- MODULE Spec2Model ----
(***************************************************************************)
(* Model of automation/generator.py: the batch runner main() that loads    *)
(* data/questions.csv, generates one post per unpublished row up to the    *)
(* day's target, writes each post into _posts/ and rewrites the CSV.       *)
(*                                                                         *)
(* Text is kept as TLA+ strings in the CSV cells; Chars() gives the        *)
(* character sequence of each text the model uses, so that the string      *)
(* functions (clean_filename, str.replace) work on characters.             *)
(***************************************************************************)
EXTENDS Integers, Sequences, FiniteSets, TLC

(* ---------------------------------------------------------------------- *)
(* Bounds of the model                                                     *)
(* ---------------------------------------------------------------------- *)
MaxRows == 5
MaxRuns == 2
MaxFaults == 1

(* ---------------------------------------------------------------------- *)
(* Program constants                                                       *)
(* ---------------------------------------------------------------------- *)
WeekendTarget == 8
WeekdayTarget == 4
SlugLimit == 50

VARIABLES
  store,            \* data/questions.csv: [exists, header, rows]
  dirExists,        \* whether _posts exists
  files,            \* _posts: file name -> content
  pc,               \* per invocation: position in main()
  today,            \* the current date
  target_count,     \* per invocation: local target_count
  fieldnames,       \* per invocation: local fieldnames
  rows,             \* per invocation: local rows (list of dicts)
  processed_count,  \* per invocation: local processed_count
  idx,              \* per invocation: position of the for loop in rows
  loaded,           \* history: the store as the invocation read it
  outcome,          \* history: what happened to each row in this invocation
  okCount,          \* history: per store position, completed generate+write
  calls,            \* history: per store position, generation calls made
  runs,             \* history: number of invocations started
  faults,           \* history: number of generation / file errors so far
  arg,              \* the text a string function is applied to
  ret               \* the function applied to arg and what it returned

\* the variables of the string functions taken on their own
pure == <<arg, ret>>

vars == <<store, dirExists, files, pc, today, target_count, fieldnames, rows,
          processed_count, idx, loaded, outcome, okCount, calls, runs, faults,
          pure>>

\* the invocations of the script
Procs == {1, 2}

(* ---------------------------------------------------------------------- *)
(* Sequence helpers                                                        *)
(* ---------------------------------------------------------------------- *)
Range(s) == {s[k] : k \in 1..Len(s)}

IndexOf(s, x) == CHOOSE k \in 1..Len(s) : s[k] = x

Take(s, n) == SubSeq(s, 1, IF n < Len(s) THEN n ELSE Len(s))

(* ---------------------------------------------------------------------- *)
(* Texts and their characters                                              *)
(* ---------------------------------------------------------------------- *)
None == "<None>"

Questions == <<"A b?", "a B", "C-3">>

QuestionOf(i) == Questions[((i - 1) % Len(Questions)) + 1]

\* the character U+0060, which the string syntax of TLA+ cannot hold
Backtick == "<backtick>"

Fence == <<Backtick, Backtick, Backtick>>

FenceMarkdown == Fence \o <<"m", "a", "r", "k", "d", "o", "w", "n">>

Chars(t) ==
  CASE t = "A b?" -> <<"A", " ", "b", "?">>
    [] t = "a B" -> <<"a", " ", "B">>
    [] t = "C-3" -> <<"C", "-", "3">>
    [] t = "" -> <<>>
    [] t = "t" -> <<"t">>
    [] t = "x" -> <<"x">>
    [] t = "Topic" -> <<"T", "o", "p", "i", "c">>
    [] t = "Question" -> <<"Q", "u", "e", "s", "t", "i", "o", "n">>
    [] t = "Status" -> <<"S", "t", "a", "t", "u", "s">>
    [] t = "Pending" -> <<"P", "e", "n", "d", "i", "n", "g">>
    [] t = "Published" -> <<"P", "u", "b", "l", "i", "s", "h", "e", "d">>

\* the texts the generation call may return for a question: a post on the
\* question, which for the last of the questions comes wrapped in a markdown
\* code fence
Post(question) == <<"#", " ">> \o Chars(question)

Fenced(text) == FenceMarkdown \o <<"\n">> \o text \o <<"\n">> \o Fence

Responses(question) ==
  IF question = Questions[Len(Questions)]
  THEN {Fenced(Post(question))}
  ELSE {Post(question)}

UpperCase == <<"A", "B", "C", "D", "E", "F", "G", "H", "I", "J", "K", "L", "M",
               "N", "O", "P", "Q", "R", "S", "T", "U", "V", "W", "X", "Y", "Z">>

LowerCase == <<"a", "b", "c", "d", "e", "f", "g", "h", "i", "j", "k", "l", "m",
               "n", "o", "p", "q", "r", "s", "t", "u", "v", "w", "x", "y", "z">>

Digits == {"0", "1", "2", "3", "4", "5", "6", "7", "8", "9"}

Whitespace == {" ", "\t", "\n", "\r"}

\* the characters the pattern [^a-zA-Z0-9\s-] does not match
Kept(c) ==
  c \in Range(UpperCase) \cup Range(LowerCase) \cup Digits \cup Whitespace \cup {"-"}

RECURSIVE Filter(_)
Filter(s) ==
  IF s = <<>> THEN <<>>
  ELSE (IF Kept(Head(s)) THEN <<Head(s)>> ELSE <<>>) \o Filter(Tail(s))

RECURSIVE LStrip(_)
LStrip(s) ==
  IF s # <<>> /\ Head(s) \in Whitespace THEN LStrip(Tail(s)) ELSE s

RECURSIVE RStrip(_)
RStrip(s) ==
  IF s # <<>> /\ s[Len(s)] \in Whitespace THEN RStrip(SubSeq(s, 1, Len(s) - 1))
  ELSE s

Strip(s) == RStrip(LStrip(s))

Lower(c) == IF c \in Range(UpperCase) THEN LowerCase[IndexOf(UpperCase, c)] ELSE c

clean_filename(text) ==
  LET stripped == Strip(Filter(text))
      hyphened == [k \in 1..Len(stripped) |->
                     IF stripped[k] = " " THEN "-" ELSE stripped[k]]
      lowered  == [k \in 1..Len(hyphened) |-> Lower(hyphened[k])]
  IN Take(lowered, SlugLimit)

\* str.replace(pat, ""): remove the leftmost non-overlapping occurrences
RECURSIVE Remove(_, _)
Remove(s, pat) ==
  IF Len(s) < Len(pat) THEN s
  ELSE IF SubSeq(s, 1, Len(pat)) = pat
       THEN Remove(SubSeq(s, Len(pat) + 1, Len(s)), pat)
       ELSE <<Head(s)>> \o Remove(Tail(s), pat)

StripFences(content) == Remove(Remove(content, FenceMarkdown), Fence)

(* ---------------------------------------------------------------------- *)
(* Dates                                                                   *)
(* ---------------------------------------------------------------------- *)
\* a Friday and the Saturday after it
Dates == {[iso |-> "2024-01-05", ord |-> 1, weekday |-> 4],
          [iso |-> "2024-01-06", ord |-> 2, weekday |-> 5]}

\* the dates the clock can show from date d on
From(d) == {e \in Dates : e.ord >= d.ord}

get_target_count(d) == IF d.weekday >= 5 THEN WeekendTarget ELSE WeekdayTarget

FileName(d, question) == <<d.iso, "-">> \o clean_filename(Chars(question)) \o <<".md">>

(* ---------------------------------------------------------------------- *)
(* The CSV store: csv.DictReader and csv.DictWriter on parsed cells        *)
(* ---------------------------------------------------------------------- *)
\* A parsed CSV line is a sequence of cells.  A dict row is
\* [vals |-> field name -> cell or None, rest |-> the cells beyond the
\* field names], rest being what DictReader files under the key None.

\* WithStatus without the test for an existing Status column
WithStatusAlways(header) == Append(header, "Status")

\* fieldnames after "if 'Status' not in fieldnames: fieldnames.append('Status')"
WithStatus(header) ==
  IF "Status" \in Range(header) THEN header ELSE Append(header, "Status")

\* DictReader.__next__ for one non-blank line, with restkey = restval = None
ReadRow(fn, cells) ==
  [vals |-> [k \in Range(fn) |->
               IF IndexOf(fn, k) <= Len(cells) THEN cells[IndexOf(fn, k)] ELSE None],
   rest |-> IF Len(cells) > Len(fn) THEN SubSeq(cells, Len(fn) + 1, Len(cells))
            ELSE <<>>]

\* DictReader skips the lines that parse to no cell at all
NonBlank(lines) == SelectSeq(lines, LAMBDA l : l # <<>>)

ReadRows(fn, lines) ==
  [i \in 1..Len(NonBlank(lines)) |-> ReadRow(fn, NonBlank(lines)[i])]

\* DictWriter._dict_to_list raises ValueError for a dict with a key that is
\* not a field name (extrasaction = 'raise'); the key None is such a key
Writable(row) == row.rest = <<>>

\* DictWriter._dict_to_list, followed by the writer's None -> '' conversion
DictToList(fn, row) ==
  [k \in 1..Len(fn) |-> IF row.vals[fn[k]] = None THEN "" ELSE row.vals[fn[k]]]

\* number of leading rows writerows() puts out before a row raises
WritablePrefix(rs) ==
  IF \A i \in 1..Len(rs) : Writable(rs[i]) THEN Len(rs)
  ELSE (CHOOSE i \in 1..Len(rs) :
          /\ ~Writable(rs[i])
          /\ \A j \in 1..(i - 1) : Writable(rs[j])) - 1

WrittenStore(fn, rs) ==
  [exists |-> TRUE,
   header |-> fn,
   rows   |-> [i \in 1..WritablePrefix(rs) |-> DictToList(fn, rs[i])]]

(* ---------------------------------------------------------------------- *)
(* Initial stores                                                          *)
(* ---------------------------------------------------------------------- *)
Headers == {<<"Topic", "Question">>, <<"Topic", "Question", "Status">>}

Statuses == {"Pending", "Published"}

Shapes == {"short", "long"}

FullRow(h, i, s) ==
  [k \in 1..Len(h) |->
     IF h[k] = "Question" THEN QuestionOf(i)
     ELSE IF h[k] = "Status" THEN s ELSE "t"]

\* a line with exactly the header's cells, with only its first cell, or with
\* one cell more than the header
Line(h, i, s, shape) ==
  CASE shape = "full"  -> FullRow(h, i, s)
    [] shape = "short" -> SubSeq(FullRow(h, i, s), 1, 1)
    [] shape = "long"  -> FullRow(h, i, s) \o <<"x">>

\* no string function has been applied
NotApplied == [of |-> "none", val |-> <<>>]

NoStore == [exists |-> FALSE, header |-> <<>>, rows |-> <<>>]

\* no store, or a store of at most MaxRows lines that are all full except
\* possibly the first or the last one
InitStore(s) ==
  \/ s = NoStore
  \/ \E h \in Headers, n \in 0..MaxRows :
       \E st \in [1..n -> Statuses], m \in {0, 1, n}, shape \in Shapes :
         s = [exists |-> TRUE,
              header |-> h,
              rows   |-> [i \in 1..n |->
                            Line(h, i, st[i], IF i = m THEN shape ELSE "full")]]

\* the state of the directory, the processes and the history before any run
NotStarted ==
  /\ dirExists = FALSE
  /\ files = <<>>
  /\ pc = [p \in Procs |-> "idle"]
  /\ today = CHOOSE d \in Dates : d.ord = 1
  /\ target_count = [p \in Procs |-> 0]
  /\ fieldnames = [p \in Procs |-> <<>>]
  /\ rows = [p \in Procs |-> <<>>]
  /\ processed_count = [p \in Procs |-> 0]
  /\ idx = [p \in Procs |-> 1]
  /\ loaded = [p \in Procs |-> NoStore]
  /\ outcome = [p \in Procs |-> <<>>]
  /\ okCount = [i \in 1..MaxRows |-> 0]
  /\ calls = [i \in 1..MaxRows |-> 0]
  /\ runs = 0
  /\ faults = 0

Init ==
  /\ InitStore(store)
  /\ NotStarted
  /\ arg = <<>>
  /\ ret = NotApplied

(* ---------------------------------------------------------------------- *)
(* main()                                                                  *)
(* ---------------------------------------------------------------------- *)
Ended == {"idle", "no_csv", "done", "raised_in_loop", "raised_in_rewrite"}

\* lines 107-118 when data/questions.csv is missing: print and return
StartNoCsv(p) ==
  /\ pc[p] \in Ended
  /\ runs < MaxRuns
  /\ ~store.exists
  /\ \E d \in From(today) :
       /\ today' = d
       /\ target_count' = [target_count EXCEPT ![p] = get_target_count(d)]
  /\ dirExists' = TRUE
  /\ rows' = [rows EXCEPT ![p] = <<>>]
  /\ processed_count' = [processed_count EXCEPT ![p] = 0]
  /\ pc' = [pc EXCEPT ![p] = "no_csv"]
  /\ loaded' = [loaded EXCEPT ![p] = NoStore]
  /\ outcome' = [outcome EXCEPT ![p] = <<>>]
  /\ runs' = runs + 1
  /\ UNCHANGED <<calls, pure, store, files, fieldnames, idx, okCount, faults>>

\* lines 107-118 when data/questions.csv is there
Start(p) ==
  /\ pc[p] \in Ended
  /\ runs < MaxRuns
  /\ store.exists
  /\ \E d \in From(today) :
       /\ today' = d
       /\ target_count' = [target_count EXCEPT ![p] = get_target_count(d)]
  /\ dirExists' = TRUE
  /\ rows' = [rows EXCEPT ![p] = <<>>]
  /\ processed_count' = [processed_count EXCEPT ![p] = 0]
  /\ pc' = [pc EXCEPT ![p] = "load"]
  /\ loaded' = [loaded EXCEPT ![p] = NoStore]
  /\ outcome' = [outcome EXCEPT ![p] = <<>>]
  /\ runs' = runs + 1
  /\ UNCHANGED <<calls, pure, store, files, fieldnames, idx, okCount, faults>>

\* lines 120-124
Load(p) ==
  /\ pc[p] = "load"
  /\ fieldnames' = [fieldnames EXCEPT ![p] = WithStatus(store.header)]
  /\ rows' = [rows EXCEPT ![p] = ReadRows(WithStatus(store.header), store.rows)]
  /\ idx' = [idx EXCEPT ![p] = 1]
  /\ loaded' = [loaded EXCEPT ![p] = store]
  /\ outcome' = [outcome EXCEPT ![p] = [i \in 1..Len(rows'[p]) |-> "none"]]
  /\ pc' = [pc EXCEPT ![p] = "loop"]
  /\ UNCHANGED <<calls, pure, store, dirExists, files, today, target_count, processed_count,
                 okCount, runs, faults>>

\* QuotaReached with the comparison off by one
QuotaReachedLate(count, target) == count > target

\* line 127: processed_count >= target_count
QuotaReached(count, target) == count >= target

\* IsPublished comparing with the wrong spelling of the status
IsPublishedLower(row) == row.vals["Status"] = "published"

\* line 128: row.get('Status') == 'Published'
IsPublished(row) == row.vals["Status"] = "Published"

\* line 130, outside the try: row['Question'][:30] raises KeyError without a
\* Question column and TypeError when the line had no cell for it
QuestionRaises(row) ==
  \/ "Question" \notin DOMAIN row.vals
  \/ row.vals["Question"] = None

Row(p) == rows[p][idx[p]]

\* the for loop is at a row that passes lines 127 and 128
AtUnpublished(p) ==
  /\ pc[p] = "loop"
  /\ idx[p] <= Len(rows[p])
  /\ ~QuotaReached(processed_count[p], target_count[p])
  /\ ~IsPublished(Row(p))

\* lines 126-127: the rows are exhausted, or the break
LoopExit(p) ==
  /\ pc[p] = "loop"
  /\ \/ idx[p] > Len(rows[p])
     \/ QuotaReached(processed_count[p], target_count[p])
  /\ pc' = [pc EXCEPT ![p] = "rewrite"]
  /\ UNCHANGED <<calls, pure, store, dirExists, files, today, target_count, fieldnames, rows,
                 processed_count, idx, loaded, outcome, okCount, runs, faults>>

\* line 128: continue
SkipPublished(p) ==
  /\ pc[p] = "loop"
  /\ idx[p] <= Len(rows[p])
  /\ ~QuotaReached(processed_count[p], target_count[p])
  /\ IsPublished(Row(p))
  /\ idx' = [idx EXCEPT ![p] = @ + 1]
  /\ outcome' = [outcome EXCEPT ![p][idx[p]] = "skipped"]
  /\ UNCHANGED <<calls, pure, store, dirExists, files, pc, today, target_count, fieldnames,
                 rows, processed_count, loaded, okCount, runs, faults>>

\* line 130 raises: the exception leaves main()
QuestionError(p) ==
  /\ AtUnpublished(p)
  /\ QuestionRaises(Row(p))
  /\ pc' = [pc EXCEPT ![p] = "raised_in_loop"]
  /\ outcome' = [outcome EXCEPT ![p][idx[p]] = "raised"]
  /\ UNCHANGED <<calls, pure, store, dirExists, files, today, target_count, fieldnames, rows,
                 processed_count, idx, loaded, okCount, runs, faults>>

\* Caught with the batch ending at the first error
CaughtEndsBatch(p, what) ==
  /\ pc' = [pc EXCEPT ![p] = "rewrite"]
  /\ outcome' = [outcome EXCEPT ![p][idx[p]] = what]
  /\ faults' = faults + 1
  /\ calls' = [calls EXCEPT ![idx[p]] = @ + 1]
  /\ UNCHANGED <<pure, store, dirExists, idx, today, target_count, fieldnames, rows,
                 processed_count, loaded, okCount, runs>>

\* lines 141-142: the handler prints and the loop takes the next row
Caught(p, what) ==
  /\ idx' = [idx EXCEPT ![p] = @ + 1]
  /\ outcome' = [outcome EXCEPT ![p][idx[p]] = what]
  /\ faults' = faults + 1
  /\ calls' = [calls EXCEPT ![idx[p]] = @ + 1]
  /\ UNCHANGED <<pure, store, dirExists, pc, today, target_count, fieldnames, rows,
                 processed_count, loaded, okCount, runs>>

\* line 132 raises (the call, or reading response.text)
GenerationFails(p) ==
  /\ AtUnpublished(p)
  /\ ~QuestionRaises(Row(p))
  /\ faults < MaxFaults
  /\ files' = files
  /\ Caught(p, "generation_failed")

\* line 136 raises: the file is neither created nor truncated
OpenFails(p) ==
  /\ AtUnpublished(p)
  /\ ~QuestionRaises(Row(p))
  /\ faults < MaxFaults
  /\ files' = files
  /\ Caught(p, "open_failed")

\* WriteFails with line 139 moved in front of the write
WriteFailsAfterMark(p) ==
  /\ AtUnpublished(p)
  /\ ~QuestionRaises(Row(p))
  /\ faults < MaxFaults
  /\ files' = (FileName(today, Row(p).vals["Question"]) :> <<>>) @@ files
  /\ rows' = [rows EXCEPT ![p][idx[p]].vals["Status"] = "Published"]
  /\ idx' = [idx EXCEPT ![p] = @ + 1]
  /\ outcome' = [outcome EXCEPT ![p][idx[p]] = "write_failed"]
  /\ faults' = faults + 1
  /\ calls' = [calls EXCEPT ![idx[p]] = @ + 1]
  /\ UNCHANGED <<pure, store, dirExists, pc, today, target_count, fieldnames,
                 processed_count, loaded, okCount, runs>>

\* line 137 raises: open(..., 'w') has already created or emptied the file
WriteFails(p) ==
  /\ AtUnpublished(p)
  /\ ~QuestionRaises(Row(p))
  /\ faults < MaxFaults
  /\ files' = (FileName(today, Row(p).vals["Question"]) :> <<>>) @@ files
  /\ Caught(p, "write_failed")

\* line 139
MarkPublished(row) == [row EXCEPT !.vals["Status"] = "Published"]

\* Publish with the mode 'x' on line 136 in effect: a file that is there stays
PublishKeepsExisting(p) ==
  /\ AtUnpublished(p)
  /\ ~QuestionRaises(Row(p))
  /\ \E response \in Responses(Row(p).vals["Question"]) :
       files' = files @@ (FileName(today, Row(p).vals["Question"])
                            :> StripFences(response))
  /\ rows' = [rows EXCEPT ![p][idx[p]] = MarkPublished(@)]
  /\ processed_count' = [processed_count EXCEPT ![p] = @ + 1]
  /\ idx' = [idx EXCEPT ![p] = @ + 1]
  /\ outcome' = [outcome EXCEPT ![p][idx[p]] = "published"]
  /\ okCount' = [okCount EXCEPT ![idx[p]] = @ + 1]
  /\ calls' = [calls EXCEPT ![idx[p]] = @ + 1]
  /\ UNCHANGED <<pure, store, dirExists, pc, today, target_count, fieldnames, loaded,
                 runs, faults>>

\* Publish with line 140 left out
PublishUncounted(p) ==
  /\ AtUnpublished(p)
  /\ ~QuestionRaises(Row(p))
  /\ \E response \in Responses(Row(p).vals["Question"]) :
       files' = (FileName(today, Row(p).vals["Question"])
                   :> StripFences(response)) @@ files
  /\ rows' = [rows EXCEPT ![p][idx[p]] = MarkPublished(@)]
  /\ idx' = [idx EXCEPT ![p] = @ + 1]
  /\ outcome' = [outcome EXCEPT ![p][idx[p]] = "published"]
  /\ okCount' = [okCount EXCEPT ![idx[p]] = @ + 1]
  /\ calls' = [calls EXCEPT ![idx[p]] = @ + 1]
  /\ UNCHANGED <<pure, store, dirExists, pc, today, target_count, fieldnames, loaded,
                 runs, faults, processed_count>>

\* Publish with the post becoming the only file of the directory
PublishReplacesDir(p) ==
  /\ AtUnpublished(p)
  /\ ~QuestionRaises(Row(p))
  /\ \E response \in Responses(Row(p).vals["Question"]) :
       files' = (FileName(today, Row(p).vals["Question"]) :> StripFences(response))
  /\ rows' = [rows EXCEPT ![p][idx[p]] = MarkPublished(@)]
  /\ processed_count' = [processed_count EXCEPT ![p] = @ + 1]
  /\ idx' = [idx EXCEPT ![p] = @ + 1]
  /\ outcome' = [outcome EXCEPT ![p][idx[p]] = "published"]
  /\ okCount' = [okCount EXCEPT ![idx[p]] = @ + 1]
  /\ calls' = [calls EXCEPT ![idx[p]] = @ + 1]
  /\ UNCHANGED <<pure, store, dirExists, pc, today, target_count, fieldnames, loaded,
                 runs, faults>>

\* lines 132-140 without an exception
Publish(p) ==
  /\ AtUnpublished(p)
  /\ ~QuestionRaises(Row(p))
  /\ \E response \in Responses(Row(p).vals["Question"]) :
       files' = (FileName(today, Row(p).vals["Question"])
                   :> StripFences(response)) @@ files
  /\ rows' = [rows EXCEPT ![p][idx[p]] = MarkPublished(@)]
  /\ processed_count' = [processed_count EXCEPT ![p] = @ + 1]
  /\ idx' = [idx EXCEPT ![p] = @ + 1]
  /\ outcome' = [outcome EXCEPT ![p][idx[p]] = "published"]
  /\ okCount' = [okCount EXCEPT ![idx[p]] = @ + 1]
  /\ calls' = [calls EXCEPT ![idx[p]] = @ + 1]
  /\ UNCHANGED <<pure, store, dirExists, pc, today, target_count, fieldnames, loaded,
                 runs, faults>>

\* lines 144-149: every row is written
Rewrite(p) ==
  /\ pc[p] = "rewrite"
  /\ WritablePrefix(rows[p]) = Len(rows[p])
  /\ store' = WrittenStore(fieldnames[p], rows[p])
  /\ pc' = [pc EXCEPT ![p] = "done"]
  /\ UNCHANGED <<calls, pure, dirExists, files, today, target_count, fieldnames, rows,
                 processed_count, idx, loaded, outcome, okCount, runs, faults>>

\* lines 144-147: writerows() raises at a row; the file, truncated by open(),
\* keeps the header and the rows put out before it
RewriteRaises(p) ==
  /\ pc[p] = "rewrite"
  /\ WritablePrefix(rows[p]) < Len(rows[p])
  /\ store' = WrittenStore(fieldnames[p], rows[p])
  /\ pc' = [pc EXCEPT ![p] = "raised_in_rewrite"]
  /\ UNCHANGED <<calls, pure, dirExists, files, today, target_count, fieldnames, rows,
                 processed_count, idx, loaded, outcome, okCount, runs, faults>>

\* the exit status of the process: main() returning ends it with 0, an
\* exception that leaves main() ends it with 1
ExitStatus(p) ==
  CASE pc[p] \in {"done", "no_csv"} -> 0
    [] pc[p] \in {"raised_in_loop", "raised_in_rewrite"} -> 1
    [] OTHER -> -1

Run(p) ==
  \/ StartNoCsv(p)
  \/ Start(p)
  \/ Load(p)
  \/ LoopExit(p)
  \/ SkipPublished(p)
  \/ QuestionError(p)
  \/ GenerationFails(p)
  \/ OpenFails(p)
  \/ WriteFails(p)
  \/ Publish(p)
  \/ Rewrite(p)
  \/ RewriteRaises(p)

\* successive invocations: one process, started again when it has ended
Next == Run(1)

Spec == Init /\ [][Next]_vars

\* the script is started again and again and a started run does not hang:
\* some step is taken whenever one can be
MaxLiveRows == 2

LiveInit == Init /\ Len(store.rows) <= MaxLiveRows

FairSpec == LiveInit /\ [][Next]_vars /\ WF_vars(Next)

(* ---------------------------------------------------------------------- *)
(* The string functions on their own                                       *)
(* ---------------------------------------------------------------------- *)
MaxText == 3
MaxBody == 2

\* the sequences over S of length at most n
SeqsUpTo(S, n) == UNION {[1..k -> S] : k \in 0..n}

RECURSIVE Concat(_)
Concat(ss) == IF ss = <<>> THEN <<>> ELSE Head(ss) \o Concat(Tail(ss))

\* characters of each kind the pattern of clean_filename tells apart
Alphabet == {"A", "b", "3", " ", "\t", "-", "?"}

LoadBalancer ==
  <<"W", "h", "a", "t", " ", "i", "s", " ", "a", " ", "L", "o", "a", "d", " ",
    "B", "a", "l", "a", "n", "c", "e", "r", "?">>

\* a question longer than the slice [:50] keeps
LongQuestion == [k \in 1..(SlugLimit + 2) |-> IF k % 5 = 0 THEN " " ELSE "Q"]

Questionlike == SeqsUpTo(Alphabet, MaxText) \cup {LoadBalancer, LongQuestion}

\* responses wrapped in a code fence: the opening fence bare or with a
\* language tag, a line break, a body that may hold fences of its own, a line
\* break and the closing fence
Openings == {Fence, FenceMarkdown, Fence \o <<"m", "d">>}

BodyParts == {<<"x">>, <<" ">>, <<"\n">>, Fence}

Wrapped ==
  {o \o <<"\n">> \o Concat(b) \o <<"\n">> \o Fence :
     o \in Openings, b \in SeqsUpTo(BodyParts, MaxBody)}

TextInit ==
  /\ store = NoStore
  /\ NotStarted
  /\ arg \in Questionlike \cup Wrapped
  /\ ret = NotApplied

\* line 67 applied to arg
CleanFilename ==
  /\ ret = NotApplied
  /\ ret' = [of |-> "clean_filename", val |-> clean_filename(arg)]
  /\ UNCHANGED <<store, dirExists, files, pc, today, target_count, fieldnames, rows,
                 processed_count, idx, loaded, outcome, okCount, calls, runs,
                 faults, arg>>

\* line 133 applied to arg
ReplaceFences ==
  /\ ret = NotApplied
  /\ ret' = [of |-> "replace", val |-> StripFences(arg)]
  /\ UNCHANGED <<store, dirExists, files, pc, today, target_count, fieldnames, rows,
                 processed_count, idx, loaded, outcome, okCount, calls, runs,
                 faults, arg>>

TextNext == CleanFilename \/ ReplaceFences

TextSpec == TextInit /\ [][TextNext]_vars

(* ---------------------------------------------------------------------- *)
(* Two invocations at the same time                                        *)
(* ---------------------------------------------------------------------- *)
MaxOverlapRows == 2

\* the texts the cells of a store can hold
CellTexts ==
  {"", "t", "x", "Topic", "Question", "Status", "Pending", "Published"}
    \cup Range(Questions)

\* a cell whose characters are none of the texts above: a text cut in two
Torn == "<torn>"

RECURSIVE Join(_)
Join(cells) ==
  IF cells = <<>> THEN <<>>
  ELSE IF Len(cells) = 1 THEN Chars(cells[1])
  ELSE Chars(cells[1]) \o <<",">> \o Join(Tail(cells))

\* csv.writer.writerow: the cells, comma separated, and the line terminator
LineOut(cells) == Join(cells) \o <<"\r", "\n">>

RECURSIVE LinesOut(_)
LinesOut(lines) ==
  IF lines = <<>> THEN <<>> ELSE LineOut(Head(lines)) \o LinesOut(Tail(lines))

\* the characters of the file that holds store s
FileText(s) == LineOut(s.header) \o LinesOut(s.rows)

\* csv.reader: the lines of a text, each a sequence of characters
RECURSIVE SplitLines(_, _)
SplitLines(text, cur) ==
  IF text = <<>> THEN (IF cur = <<>> THEN <<>> ELSE <<cur>>)
  ELSE IF Len(text) >= 2 /\ text[1] = "\r" /\ text[2] = "\n"
       THEN <<cur>> \o SplitLines(SubSeq(text, 3, Len(text)), <<>>)
  ELSE IF text[1] \in {"\r", "\n"}
       THEN <<cur>> \o SplitLines(Tail(text), <<>>)
  ELSE SplitLines(Tail(text), Append(cur, text[1]))

TextOf(chars) ==
  IF \E t \in CellTexts : Chars(t) = chars
  THEN CHOOSE t \in CellTexts : Chars(t) = chars
  ELSE Torn

\* csv.reader: the cells of a line; an empty line has no cell
RECURSIVE SplitCells(_, _)
SplitCells(line, cur) ==
  IF line = <<>> THEN <<TextOf(cur)>>
  ELSE IF Head(line) = "," THEN <<TextOf(cur)>> \o SplitCells(Tail(line), <<>>)
  ELSE SplitCells(Tail(line), Append(cur, Head(line)))

CellsOf(line) == IF line = <<>> THEN <<>> ELSE SplitCells(line, <<>>)

\* the store a reader finds in a file with the characters text
FileOf(text) ==
  LET lines == SplitLines(text, <<>>)
  IN [exists |-> TRUE,
      header |-> IF lines = <<>> THEN <<>> ELSE CellsOf(lines[1]),
      rows   |-> [i \in 1..(Len(lines) - 1) |-> CellsOf(lines[i + 1])]]

\* a write of the characters last at offset 0 of a file that holds first:
\* what first has beyond the length of last stays in the file
Overlay(last, first) == last \o SubSeq(first, Len(last) + 1, Len(first))

AfterRewrite(p) ==
  IF WritablePrefix(rows[p]) = Len(rows[p]) THEN "done" ELSE "raised_in_rewrite"

\* lines 144-147 of both invocations interleaved: each open(CSV_PATH, 'w')
\* has emptied the file before either buffer is flushed; q closes first and
\* p, writing from its own offset 0, closes last
RewriteBoth(p, q) ==
  /\ p # q
  /\ pc[p] = "rewrite"
  /\ pc[q] = "rewrite"
  /\ store' = FileOf(Overlay(FileText(WrittenStore(fieldnames[p], rows[p])),
                             FileText(WrittenStore(fieldnames[q], rows[q]))))
  /\ pc' = [pc EXCEPT ![p] = AfterRewrite(p), ![q] = AfterRewrite(q)]
  /\ UNCHANGED <<calls, pure, dirExists, files, today, target_count, fieldnames, rows,
                 processed_count, idx, loaded, outcome, okCount, runs, faults>>

OverlapInit == Init /\ Len(store.rows) <= MaxOverlapRows

OverlapNext ==
  \/ Run(1)
  \/ Run(2)
  \/ RewriteBoth(1, 2)
  \/ RewriteBoth(2, 1)

SpecOverlap == OverlapInit /\ [][OverlapNext]_vars

(* ---------------------------------------------------------------------- *)
(* Vocabulary of the properties                                            *)
(* ---------------------------------------------------------------------- *)
\* the Status of line k of a store file s, as a reader of the file sees it
StatusIn(s, k) ==
  LET j == IndexOf(WithStatus(s.header), "Status")
  IN IF j <= Len(s.rows[k]) THEN s.rows[k][j] ELSE None

HasLoaded(p) == pc[p] \in {"loop", "rewrite", "done", "raised_in_loop", "raised_in_rewrite"}

Records(p) == 1..Len(loaded[p].rows)

PublishedAtLoad(p) == {k \in Records(p) : StatusIn(loaded[p], k) = "Published"}

UnpublishedAtLoad(p) == Records(p) \ PublishedAtLoad(p)

PublishedInStore == {k \in 1..Len(store.rows) : StatusIn(store, k) = "Published"}

Handled(p, what) == {k \in DOMAIN outcome[p] : outcome[p][k] = what}

Failures == {"generation_failed", "open_failed", "write_failed"}

\* the step in which the row at the loop position gets the outcome what
Becomes(p, what) ==
  /\ pc[p] = "loop"
  /\ idx[p] \in DOMAIN outcome[p]
  /\ outcome[p][idx[p]] = "none"
  /\ outcome'[p] = [outcome[p] EXCEPT ![idx[p]] = what]

(* ---------------------------------------------------------------------- *)
(* Properties                                                              *)
(* ---------------------------------------------------------------------- *)
\* C1: a record that is Published in the store when a run loads it is never
\* passed to the generation call, never causes a file write and never adds to
\* processed_count, wherever it stands in the store and whatever the target:
\* the only thing that happens to it is the skip, and processed_count never
\* exceeds the number of records passed so far that were not Published; no
\* step taken with the loop at such a record changes a file or the count.
C1_PublishedSkipped ==
  /\ [](\A p \in Procs :
          HasLoaded(p) =>
            /\ \A k \in PublishedAtLoad(p) : outcome[p][k] \in {"none", "skipped"}
            /\ processed_count[p] <=
                 Cardinality({k \in UnpublishedAtLoad(p) : k < idx[p]}))
  /\ [][\A p \in Procs :
          (pc[p] = "loop" /\ idx[p] \in PublishedAtLoad(p)) =>
            /\ files' = files
            /\ okCount' = okCount
            /\ processed_count' = processed_count]_vars

C1_Witness ==
  \E p \in Procs :
    /\ pc[p] = "done"
    /\ processed_count[p] = target_count[p]
    /\ \E k \in PublishedAtLoad(p) :
         /\ outcome[p][k] = "skipped"
         /\ \E j \in Handled(p, "published") : j < k
         /\ \E j \in Handled(p, "published") : j > k

\* C2: over successive runs on the same store, a record that is Published in
\* the store is still there and Published after every later step, and no
\* record is generated and written successfully more than once.
C2_PublishedOnce ==
  /\ [](\A k \in DOMAIN okCount : okCount[k] <= 1)
  /\ [][\A k \in PublishedInStore :
          /\ k <= Len(store'.rows)
          /\ StatusIn(store', k) = "Published"]_vars

\* the run loaded more unpublished records than its target
OverQuota(p) == Cardinality(UnpublishedAtLoad(p)) > target_count[p]

\* the first n elements of a set of positions
FirstOf(S, n) == {k \in S : Cardinality({j \in S : j < k}) < n}

NewlyPublished(p) == PublishedInStore \ PublishedAtLoad(p)

WellFormed(p) ==
  \A k \in Records(p) : Len(loaded[p].rows[k]) = Len(loaded[p].header)

NoFailure(p) == \A k \in DOMAIN outcome[p] : outcome[p][k] \notin Failures

C5_IdleRunChangesNothing ==
  /\ [](\A p \in Procs :
          (runs >= 2 /\ HasLoaded(p) /\ UnpublishedAtLoad(p) = {}) =>
            \A k \in DOMAIN outcome[p] : outcome[p][k] \in {"none", "skipped"})
  /\ [][\A p \in Procs :
          (runs >= 2 /\ HasLoaded(p) /\ UnpublishedAtLoad(p) = {}) =>
            /\ files' = files
            /\ store' = store
            /\ okCount' = okCount]_vars

C5_Witness ==
  \E p \in Procs :
    /\ runs >= 2
    /\ pc[p] = "done"
    /\ UnpublishedAtLoad(p) = {}
    /\ Len(loaded[p].rows) >= 2
    /\ \E k \in DOMAIN okCount : okCount[k] = 1
    /\ store = loaded[p]

FileFailed(p) == Handled(p, "open_failed") \cup Handled(p, "write_failed")

\* C6: when opening or writing the output file of a record fails, that step
\* marks no row, leaves processed_count as it was and moves the loop to the
\* next record; and once the run has ended the record is not Published in
\* the store.
C6_WriteFailureIsolated ==
  /\ [][\A p \in Procs :
          (Becomes(p, "open_failed") \/ Becomes(p, "write_failed")) =>
            /\ rows' = rows
            /\ processed_count' = processed_count
            /\ store' = store
            /\ pc'[p] = "loop"
            /\ idx'[p] = idx[p] + 1]_vars
  /\ [](\A p \in Procs :
          pc[p] \in {"done", "raised_in_loop", "raised_in_rewrite"} =>
            \A k \in FileFailed(p) :
              /\ ~IsPublished(rows[p][k])
              /\ k <= Len(store.rows) => StatusIn(store, k) # "Published")

C6_Witness ==
  \E p \in Procs :
    /\ pc[p] = "done"
    /\ \E k \in Handled(p, "write_failed") :
         /\ k + 1 \in Handled(p, "published")
         /\ StatusIn(store, k) # "Published"
         /\ processed_count[p] = Cardinality(Handled(p, "published"))

\* C7: after a run that loaded the store has ended, a record is Published in
\* the store if and only if it was Published when loaded or was generated
\* and written in this run; and the processed_count a completed run reports
\* is the number of records that went from not Published to Published.
C7_StoreReflectsRun ==
  \A p \in Procs :
    /\ pc[p] \in {"done", "raised_in_loop", "raised_in_rewrite"} =>
         \A k \in Records(p) :
           (k \in PublishedInStore) <=>
             (k \in PublishedAtLoad(p) \/ k \in Handled(p, "published"))
    /\ pc[p] = "done" =>
         processed_count[p] = Cardinality(NewlyPublished(p))

\* C8: once the store has been loaded, no error raised while a single record
\* is handled leaves main(): the run never ends inside the loop.
C8_RecordErrorsCaught ==
  \A p \in Procs : pc[p] # "raised_in_loop"

\* a cell that is missing and a cell that is empty count as the same value
Value(c) == IF c = None THEN "" ELSE c

\* line k of the store file s as the reader sees it
DictOf(s, k) == ReadRow(WithStatus(s.header), s.rows[k])

\* C9: after the rewrite the store holds every record that was loaded, in the
\* same order, each with the same value in every field other than Status and
\* with the same cells beyond the header; only the records generated and
\* written in this run have another Status than the one loaded.
C9_RewriteKeepsRecords ==
  \A p \in Procs :
    pc[p] \in {"done", "raised_in_rewrite"} =>
      /\ Len(store.rows) = Len(loaded[p].rows)
      /\ \A k \in Records(p) :
           /\ \A f \in Range(loaded[p].header) \ {"Status"} :
                Value(DictOf(store, k).vals[f]) =
                  Value(DictOf(loaded[p], k).vals[f])
           /\ DictOf(store, k).rest = DictOf(loaded[p], k).rest
           /\ k \notin Handled(p, "published") =>
                Value(StatusIn(store, k)) = Value(StatusIn(loaded[p], k))

\* C10: a run that finds no store file creates no output directory, no
\* output file and no store, and ends as a failure of the process.
C10_AbsentStoreIsFatal ==
  /\ [][\A p \in Procs :
          (pc'[p] = "no_csv" /\ runs' = runs + 1) =>
            /\ dirExists' = dirExists
            /\ files' = files
            /\ store' = store]_vars
  /\ [](\A p \in Procs : pc[p] = "no_csv" => ExitStatus(p) # 0)

(* ---------------------------------------------------------------------- *)
(* C11: the slug clean_filename returns holds only lowercase letters,      *)
(* digits and hyphens, is at most 50 characters long, and is               *)
(* what-is-a-load-balancer for "What is a Load Balancer?"                  *)
(* ---------------------------------------------------------------------- *)
SlugChars == Range(LowerCase) \cup Digits \cup {"-"}

C11_SlugIsClean ==
  ret.of = "clean_filename" =>
    /\ \A k \in 1..Len(ret.val) : ret.val[k] \in SlugChars
    /\ Len(ret.val) <= SlugLimit
    /\ arg = LoadBalancer =>
         ret.val = <<"w", "h", "a", "t", "-", "i", "s", "-", "a", "-", "l", "o",
                     "a", "d", "-", "b", "a", "l", "a", "n", "c", "e", "r">>

(* ---------------------------------------------------------------------- *)
(* C12: for a response that begins with an opening fence, with or without  *)
(* a language tag, and ends with a closing fence, what is written is the   *)
(* enclosed text with the surrounding whitespace trimmed, fences inside it *)
(* left as they are                                                        *)
(* ---------------------------------------------------------------------- *)
IsFenced(t) ==
  /\ Len(t) >= 2 * Len(Fence)
  /\ SubSeq(t, 1, Len(Fence)) = Fence
  /\ SubSeq(t, Len(t) - Len(Fence) + 1, Len(t)) = Fence

\* the language tag is the run of letters that follows the opening fence
RECURSIVE DropTag(_)
DropTag(s) ==
  IF s # <<>> /\ Head(s) \in Range(LowerCase) \cup Range(UpperCase)
  THEN DropTag(Tail(s)) ELSE s

Enclosed(t) == Strip(DropTag(SubSeq(t, Len(Fence) + 1, Len(t) - Len(Fence))))

C12_FencesStripped ==
  (ret.of = "replace" /\ IsFenced(arg)) => ret.val = Enclosed(arg)

(* ---------------------------------------------------------------------- *)
(* C13: when two invocations overlap, the records in the store after both  *)
(* have finished are the records persisted by the invocation that wrote    *)
(* last                                                                    *)
(* ---------------------------------------------------------------------- *)
Wrote(p) == pc[p] \in {"done", "raised_in_rewrite"}

\* both invocations have run and ended, each having loaded what the store
\* held before either persisted
Overlapped ==
  /\ \A p \in Procs : pc[p] \in Ended \ {"idle"}
  /\ \A p \in Procs : Wrote(p)
  /\ loaded[1] = loaded[2]

RecordsOf(s) == [header |-> s.header, rows |-> NonBlank(s.rows)]

C13_LastWriterWins ==
  Overlapped =>
    \E p \in Procs :
      RecordsOf(store) = RecordsOf(WrittenStore(fieldnames[p], rows[p]))

(* ---------------------------------------------------------------------- *)
(* C14: a run creates the output directory if it is missing and deletes no *)
(* file from it: every file there before a step is there after it, and a   *)
(* file is created or rewritten only under the name of the record the run  *)
(* is handling                                                             *)
(* ---------------------------------------------------------------------- *)
Touched == {f \in DOMAIN files' : f \notin DOMAIN files \/ files'[f] # files[f]}

C14_OnlyItsOwnFiles ==
  /\ [](\A p \in Procs : pc[p] # "idle" => dirExists)
  /\ [][/\ dirExists => dirExists'
        /\ DOMAIN files \subseteq DOMAIN files'
        /\ \A f \in Touched :
             \E p \in Procs :
               /\ AtUnpublished(p)
               /\ ~QuestionRaises(Row(p))
               /\ f = FileName(today, Row(p).vals["Question"])]_vars

\* a later run has written a post next to a post of an earlier day
C14_Witness ==
  /\ dirExists
  /\ pc[1] = "done"
  /\ runs = 2
  /\ \E f, g \in DOMAIN files : f[1] # g[1] /\ files[f] # <<>> /\ files[g] # <<>>

(* ---------------------------------------------------------------------- *)
(* C15: in every run, whatever the store holds and whichever calls fail,   *)
(* processed_count never exceeds the target, so at most target records     *)
(* become Published; once the count has reached the target no further      *)
(* record is passed to generation, and the records the loop has not        *)
(* reached keep the status they were loaded with                           *)
(* ---------------------------------------------------------------------- *)
\* the rows the loop of p has not handled
Remaining(p) == Handled(p, "none")

C15_QuotaNeverExceeded ==
  /\ [](\A p \in Procs :
          HasLoaded(p) =>
            /\ processed_count[p] <= target_count[p]
            /\ Cardinality(Handled(p, "published")) <= target_count[p]
            /\ Cardinality({k \in DOMAIN rows[p] : IsPublished(rows[p][k])} \
                             PublishedAtLoad(p)) <= target_count[p]
            /\ \A k \in Remaining(p) :
                 /\ rows[p][k] = DictOf(loaded[p], k)
                 /\ pc[p] = "done" =>
                      Value(StatusIn(store, k)) = Value(StatusIn(loaded[p], k)))
  /\ [][\A p \in Procs :
          (pc[p] \in {"loop", "rewrite"} /\
             processed_count[p] >= target_count[p]) =>
            /\ calls' = calls
            /\ files' = files
            /\ rows' = rows
            /\ outcome' = outcome]_vars

\* a run has ended with the count at the target and records left unhandled
C15_Witness ==
  \E p \in Procs :
    /\ pc[p] = "done"
    /\ processed_count[p] = target_count[p]
    /\ Cardinality(Handled(p, "published")) = target_count[p]
    /\ \E k \in Remaining(p) : StatusIn(store, k) = "Pending"

(* ---------------------------------------------------------------------- *)
(* C16: within one run each record is passed to generation at most once:   *)
(* a record that failed is not tried again in that run, is in the store    *)
(* the run persists with the status it was loaded with, and in the next    *)
(* run is handled again when the loop reaches it with the count below the  *)
(* target                                                                  *)
(* ---------------------------------------------------------------------- *)
\* the records of p that a call or a file operation has failed for
Failed(p) == {k \in DOMAIN outcome[p] : outcome[p][k] \in Failures}

\* the positions that have been passed to generation without success so far
OnlyFailedSoFar == {k \in 1..MaxRows : calls[k] >= 1 /\ okCount[k] = 0}

C16_FailedNotRetried ==
  /\ [](\A p \in Procs :
          HasLoaded(p) =>
            /\ \A k \in DOMAIN outcome[p] :
                 outcome[p][k] \in Failures \cup {"published"} => k < idx[p]
            /\ \A k \in Failed(p) :
                 /\ ~IsPublished(rows[p][k])
                 /\ pc[p] \in {"done", "raised_in_rewrite"} =>
                      /\ k <= Len(store.rows)
                      /\ Value(StatusIn(store, k)) = Value(StatusIn(loaded[p], k))
            /\ \A k \in OnlyFailedSoFar \cap Records(p) :
                 /\ k \notin PublishedAtLoad(p)
                 /\ (pc[p] = "loop" /\ idx[p] = k /\
                      ~QuotaReached(processed_count[p], target_count[p])) =>
                      (AtUnpublished(p) /\ ~QuestionRaises(Row(p))))
  /\ [](\A k \in 1..MaxRows : calls[k] <= runs)
  /\ [][\A p \in Procs :
          /\ (pc[p] = "loop" /\ pc'[p] = "loop") => idx'[p] >= idx[p]
          /\ \A k \in 1..MaxRows :
               (pc[p] = "loop" /\ idx[p] = k /\ calls'[k] # calls[k]) =>
                 /\ calls'[k] = calls[k] + 1
                 /\ outcome[p][k] = "none"
                 /\ outcome'[p][k] # "none"
                 /\ idx'[p] = k + 1]_vars

(* ---------------------------------------------------------------------- *)
(* C17: two unpublished records handled on the same date whose questions   *)
(* give the same slug are both written under the same file name without    *)
(* an error: the file holds the content of the later one, both are marked  *)
(* Published and both are counted, so that there can be fewer files than   *)
(* records processed                                                       *)
(* ---------------------------------------------------------------------- *)
\* the file name of every question on every date
Names == [d \in Dates, q \in Range(Questions) \cup {""} |-> FileName(d, q)]

NameOf(p, k) == Names[today, rows[p][k].vals["Question"]]

ContentsFor(p, k) ==
  {StripFences(r) : r \in Responses(rows[p][k].vals["Question"])}

\* the rows of p for which line 136 has opened the file of row k
WritersOf(p, k) ==
  {j \in Handled(p, "published") \cup Handled(p, "write_failed") :
     NameOf(p, j) = NameOf(p, k)}

Last(S) == CHOOSE k \in S : \A j \in S : j <= k

\* two rows of p published under one file name
Collide(p, j, k) ==
  /\ j \in Handled(p, "published")
  /\ k \in Handled(p, "published")
  /\ j < k
  /\ NameOf(p, j) = NameOf(p, k)

C17_SameSlugOverwrites ==
  /\ [](\A p \in Procs :
          pc[p] \in {"loop", "rewrite", "done"} =>
            /\ processed_count[p] = Cardinality(Handled(p, "published"))
            /\ \A j, k \in DOMAIN outcome[p] :
                 Collide(p, j, k) =>
                   /\ IsPublished(rows[p][j]) /\ IsPublished(rows[p][k])
                   /\ NameOf(p, k) \in DOMAIN files
                   /\ LET l == Last(WritersOf(p, k))
                      IN IF outcome[p][l] = "published"
                         THEN files[NameOf(p, k)] \in ContentsFor(p, l)
                         ELSE files[NameOf(p, k)] = <<>>
                   /\ pc[p] = "done" =>
                        {j, k} \subseteq PublishedInStore)
  /\ [][\A p \in Procs :
          (Becomes(p, "published") /\ NameOf(p, idx[p]) \in DOMAIN files) =>
            /\ DOMAIN files' = DOMAIN files
            /\ files'[NameOf(p, idx[p])] \in ContentsFor(p, idx[p])
            /\ processed_count'[p] = processed_count[p] + 1
            /\ pc'[p] = "loop"]_vars

\* a completed run has processed more records than there are files
C17_Witness ==
  \E p \in Procs :
    /\ pc[p] = "done"
    /\ Cardinality(DOMAIN files) < processed_count[p]
    /\ \E j, k \in DOMAIN outcome[p] :
         /\ Collide(p, j, k)
         /\ ContentsFor(p, j) \cap ContentsFor(p, k) = {}
         /\ files[NameOf(p, k)] \in ContentsFor(p, k)

(* ---------------------------------------------------------------------- *)
(* C18: a record whose status is absent, the store having no Status column *)
(* or the line no value for it, is handled as a Pending one: the loop does *)
(* not skip it, and when it has been generated and written successfully    *)
(* the store the run leaves has a Status column and holds it as Published  *)
(* ---------------------------------------------------------------------- *)
StatusAbsent(p) == {k \in Records(p) : Value(StatusIn(loaded[p], k)) = ""}

C18_AbsentStatusIsPending ==
  \A p \in Procs :
    HasLoaded(p) =>
      \A k \in StatusAbsent(p) :
        /\ outcome[p][k] # "skipped"
        /\ (pc[p] \in Ended /\ outcome[p][k] = "published") =>
             /\ "Status" \in Range(store.header)
             /\ k \in PublishedInStore

(* ---------------------------------------------------------------------- *)
(* C19: under successive runs on a store that gets no new record, every    *)
(* record that has been generated and written successfully is eventually   *)
(* Published in the store                                                  *)
(* ---------------------------------------------------------------------- *)
C19_EventuallyPublished ==
  \A k \in 1..MaxLiveRows : (okCount[k] >= 1) ~> (k \in PublishedInStore)

====
